---- MODULE Spec2Model ----
(***************************************************************************)
(* Chimney cap measurement tool (chase_cover_app.py): a Streamlit script.  *)
(* Every user interaction reruns the whole script top to bottom; only       *)
(* st.session_state (ss) and the widget values survive between runs.       *)
(*                                                                         *)
(* Lengths are exact fixed-point numbers: 1 = 1/80 inch.  Form inputs are   *)
(* multiples of 0.05 inch (In(1) = 4), so the two nested halvings of the    *)
(* hole resolver stay exact.  Binary floating-point rounding of the Python  *)
(* floats is not modelled.                                                 *)
(***************************************************************************)
EXTENDS Integers, Sequences, FiniteSets, TLC

VARIABLES form, project_name, ss, run

vars == <<form, project_name, ss, run>>

-----------------------------------------------------------------------------
(* Bounds of the model *)

MaxDim == 4
MaxDist == 2
MaxHoles == 2
MaxPhotos == 1

-----------------------------------------------------------------------------
(* Numbers *)

In(n) == 4 * n

Half(v) == v \div 2

Abs(v) == IF v < 0 THEN 0 - v ELSE v

\* abs(diameter_x - diameter_y) > 0.1 : 0.1 inch
Tolerance == 8

\* st.session_state.fit_tolerance = 0.25
DefaultFitTolerance == 20

None == << >>

Some(v) == << v >>

Edges == {"left", "right", "front", "back"}

-----------------------------------------------------------------------------
(* The hole loop of the form, one iteration per hole.  h is the record of   *)
(* the hole's number inputs.                                               *)

\* distances = {}; if left > 0: distances["left"] = left; ...
Distances(h) == [k \in {e \in Edges : h[e] > 0} |-> h[k]]

\* if len(distances) >= 3
MutSufficient(d) == Cardinality(DOMAIN d) >= 2

Sufficient(d) == Cardinality(DOMAIN d) >= 3

Has(d, k) == k \in DOMAIN d

MutDiameterXBoth(width, d) ==
    IF ~Sufficient(d) THEN 0
    ELSE IF Has(d, "left") /\ Has(d, "right") THEN width - d["left"] + d["right"]
    ELSE IF Has(d, "left") THEN Half(width - d["left"])
    ELSE IF Has(d, "right") THEN Half(width - d["right"])
    ELSE 0

MutDiameterXSingle(width, d) ==
    IF ~Sufficient(d) THEN 0
    ELSE IF Has(d, "left") /\ Has(d, "right") THEN width - d["left"] - d["right"]
    ELSE IF Has(d, "left") THEN width - d["left"]
    ELSE IF Has(d, "right") THEN width - d["right"]
    ELSE 0

\* diameter_x starts at 0.0 and is assigned in the X branches
DiameterX(width, d) ==
    IF ~Sufficient(d) THEN 0
    ELSE IF Has(d, "left") /\ Has(d, "right") THEN width - d["left"] - d["right"]
    ELSE IF Has(d, "left") THEN Half(width - d["left"])
    ELSE IF Has(d, "right") THEN Half(width - d["right"])
    ELSE 0

MutXPos(width, d) ==
    IF ~Sufficient(d) THEN 0
    ELSE IF Has(d, "left") THEN d["left"] + DiameterX(width, d)
    ELSE IF Has(d, "right") THEN width - d["right"] - Half(DiameterX(width, d))
    ELSE 0

\* x_pos starts at 0.0 and is assigned in the X branches
XPos(width, d) ==
    IF ~Sufficient(d) THEN 0
    ELSE IF Has(d, "left") THEN d["left"] + Half(DiameterX(width, d))
    ELSE IF Has(d, "right") THEN width - d["right"] - Half(DiameterX(width, d))
    ELSE 0

\* diameter_y starts at 0.0 and is assigned only when front and back are both given
DiameterY(length, d) ==
    IF Sufficient(d) /\ Has(d, "front") /\ Has(d, "back")
    THEN length - d["front"] - d["back"]
    ELSE 0

MutDiameter(width, length, d) ==
    IF ~Sufficient(d) THEN 0
    ELSE IF Has(d, "front") /\ Has(d, "back") THEN DiameterY(length, d)
    ELSE IF Has(d, "back") THEN DiameterX(width, d)
    ELSE IF Has(d, "front") THEN DiameterX(width, d)
    ELSE 0

\* diameter: the calculated diameter
Diameter(width, length, d) ==
    IF ~Sufficient(d) THEN 0
    ELSE IF Has(d, "front") /\ Has(d, "back")
         THEN IF Has(d, "left") /\ Has(d, "right")
              THEN Half(DiameterX(width, d) + DiameterY(length, d))
              ELSE DiameterY(length, d)
    ELSE IF Has(d, "back") THEN DiameterX(width, d)
    ELSE IF Has(d, "front") THEN DiameterX(width, d)
    ELSE 0

MutYPos(width, length, d) ==
    IF ~Sufficient(d) THEN 0
    ELSE IF Has(d, "front") /\ Has(d, "back")
         THEN d["back"] + Half(DiameterY(length, d))
    ELSE IF Has(d, "back") THEN d["back"] + Half(Half(length - d["back"]))
    ELSE IF Has(d, "front")
         THEN length - d["front"] - Half(Half(length - d["front"]))
    ELSE 0

\* y_pos starts at 0.0 and is assigned in the Y branches
YPos(width, length, d) ==
    IF ~Sufficient(d) THEN 0
    ELSE IF Has(d, "front") /\ Has(d, "back")
         THEN d["back"] + Half(DiameterY(length, d))
    ELSE IF Has(d, "back") THEN d["back"] + Half(Diameter(width, length, d))
    ELSE IF Has(d, "front")
         THEN length - d["front"] - Half(Diameter(width, length, d))
    ELSE 0

MutMismatch(width, length, d) ==
    /\ Has(d, "left") /\ Has(d, "right") /\ Has(d, "front") /\ Has(d, "back")
    /\ Abs(DiameterX(width, d) - DiameterY(length, d)) >= Tolerance

\* the st.warning of the hole: "Calculated diameters mismatch"
Mismatch(width, length, d) ==
    /\ Has(d, "left") /\ Has(d, "right") /\ Has(d, "front") /\ Has(d, "back")
    /\ Abs(DiameterX(width, d) - DiameterY(length, d)) > Tolerance

MutFinalDiameter(measured_diameter, diameter) ==
    IF measured_diameter > 0 THEN diameter ELSE measured_diameter

\* final_diameter = measured_diameter if measured_diameter > 0 else diameter
FinalDiameter(measured_diameter, diameter) ==
    IF measured_diameter > 0 THEN measured_diameter ELSE diameter

\* One iteration of the loop: the locals at its end and the dict it appends
HoleLoop(width, length, h) ==
    LET d == Distances(h)
        diameter == Diameter(width, length, d)
    IN  [ valid      |-> Sufficient(d),
          diameter_x |-> DiameterX(width, d),
          diameter_y |-> DiameterY(length, d),
          diameter   |-> diameter,
          warning    |-> Mismatch(width, length, d),
          hole       |-> [ distances         |-> d,
                           diameter          |-> FinalDiameter(h.measured_diameter, diameter),
                           x                 |-> XPos(width, d),
                           y                 |-> YPos(width, length, d),
                           collar_height     |-> h.collar_height,
                           measured_diameter |-> h.measured_diameter ] ]

-----------------------------------------------------------------------------
(* The form and the script run *)

HoleLoops(f) == [i \in 1..Len(f.holes) |-> HoleLoop(f.width, f.length, f.holes[i])]

\* holes = []; ... holes.append({...})
Holes(f) == [i \in 1..Len(f.holes) |-> HoleLoops(f)[i].hole]

\* all_valid = True; ... else: all_valid = False
AllValid(f) == \A i \in 1..Len(f.holes) : HoleLoops(f)[i].valid

\* custom_color is read only when color == "Other"
CustomColor(f) == IF f.color = "Other" THEN f.custom_color ELSE ""

\* spark_details is read only when spark_arrestor is checked
SparkDetails(f) == IF f.spark_arrestor THEN f.spark_details ELSE ""

Rect(x, y, w, h) == [x |-> x, y |-> y, w |-> w, h |-> h]

MutSketch(f, holes, name) ==
    LET adjusted_width  == f.width
        adjusted_length == f.length
        fl == f.flange_length
    IN  [ base    |-> Rect(0, 0, adjusted_width, adjusted_length),
          flange  |-> Rect(0 - fl, 0 - fl, adjusted_width + 2 * fl, adjusted_length + 2 * fl),
          trims   |-> IF f.add_kickout
                      THEN << Rect(0 - fl - 40, 0 - fl - 40,
                                   adjusted_width + 2 * fl + 80, adjusted_length + 2 * fl + 80),
                              Rect(0 - fl - 70, 0 - fl - 70,
                                   adjusted_width + 2 * fl + 140, adjusted_length + 2 * fl + 140) >>
                      ELSE << Rect(0 - fl - 30, 0 - fl - 30,
                                   adjusted_width + 2 * fl + 60, adjusted_length + 2 * fl + 60) >>,
          circles |-> [i \in 1..Len(holes) |->
                          [x |-> holes[i].x, y |-> holes[i].y, radius |-> Half(holes[i].diameter)]],
          labels  |-> [width |-> adjusted_width, length |-> adjusted_length, flange |-> fl],
          title   |-> IF name = "" THEN "Unnamed Project" ELSE name ]

\* The figure saved into jpg_buffer: rectangles, hole circles and labels
Sketch(f, holes, name) ==
    LET adjusted_width  == f.width + f.fit_tolerance
        adjusted_length == f.length + f.fit_tolerance
        fl == f.flange_length
    IN  [ base    |-> Rect(0, 0, adjusted_width, adjusted_length),
          flange  |-> Rect(0 - fl, 0 - fl, adjusted_width + 2 * fl, adjusted_length + 2 * fl),
          trims   |-> IF f.add_kickout
                      THEN << Rect(0 - fl - 40, 0 - fl - 40,
                                   adjusted_width + 2 * fl + 80, adjusted_length + 2 * fl + 80),
                              Rect(0 - fl - 70, 0 - fl - 70,
                                   adjusted_width + 2 * fl + 140, adjusted_length + 2 * fl + 140) >>
                      ELSE << Rect(0 - fl - 30, 0 - fl - 30,
                                   adjusted_width + 2 * fl + 60, adjusted_length + 2 * fl + 60) >>,
          circles |-> [i \in 1..Len(holes) |->
                          [x |-> holes[i].x, y |-> holes[i].y, radius |-> Half(holes[i].diameter)]],
          labels  |-> [width |-> adjusted_width, length |-> adjusted_length, flange |-> fl],
          title   |-> IF name = "" THEN "Unnamed Project" ELSE name ]

MutProcessSubmission(s, f, name, submit_button) ==
    IF ~submit_button THEN s
    ELSE [s EXCEPT !.sketch_created = AllValid(f),
                   !.holes = Holes(f),
                   !.fit_tolerance = f.fit_tolerance]

\* if submit_button: if not all_valid: st.error(...) else: store and render
ProcessSubmission(s, f, name, submit_button) ==
    IF ~(submit_button /\ AllValid(f)) THEN s
    ELSE [s EXCEPT !.sketch_created = TRUE,
                   !.holes = Holes(f),
                   !.project_name = name,
                   !.spark_arrestor = f.spark_arrestor,
                   !.spark_details = SparkDetails(f),
                   !.windband = f.windband,
                   !.fit_tolerance = f.fit_tolerance,
                   !.additional_notes = f.additional_notes,
                   !.color = f.color,
                   !.custom_color = CustomColor(f),
                   !.fig2d = None,
                   !.jpg_buffer = Some(Sketch(f, Holes(f), name))]

\* adjusted_width and adjusted_length are bound only in the accepted branch
\* of "if submit_button"; every run starts with a fresh namespace
AdjustedDefined(f, submit_button) == submit_button /\ AllValid(f)

\* if st.session_state.sketch_created and st.session_state.jpg_buffer
Displayed(s) == s.sketch_created /\ s.jpg_buffer # None

\* st.button("Send to Shop", disabled=not bool(uploaded_files_data)), shown
\* with the persisted outputs
SendEnabled(s) == Displayed(s) /\ s.uploaded_files_data # << >>

\* The try block of Send to Shop; every exception is caught and reported
SendResult(s, f, submit_button, send_button, creds, transport) ==
    IF ~(Displayed(s) /\ send_button /\ s.uploaded_files_data # << >>) THEN "none"
    ELSE IF ~creds THEN "error: Email credentials not set in environment variables."
    ELSE IF ~AdjustedDefined(f, submit_button)
         THEN "error: name 'adjusted_width' is not defined"
    ELSE IF ~transport THEN "error: smtp"
    ELSE "success"

\* What one run of the script shows, given the values it reads
Script(kind, s, f, name, submit_button, send_button, creds, transport) ==
    LET s1 == ProcessSubmission(s, f, name, submit_button)
        result == SendResult(s1, f, submit_button, send_button, creds, transport)
    IN  [ kind          |-> kind,
          submit_button |-> submit_button,
          send_button   |-> send_button,
          all_valid     |-> AllValid(f),
          locals        |-> HoleLoops(f),
          error         |-> submit_button /\ ~AllValid(f),
          rendered      |-> submit_button /\ AllValid(f),
          displayed     |-> Displayed(s1),
          creds         |-> creds,
          transport     |-> transport,
          send_result   |-> result,
          json_offered  |-> result = "success" ]

-----------------------------------------------------------------------------
(* Inputs *)

HoleInput(l, r, b, f, c, m) ==
    [left |-> l, right |-> r, back |-> b, front |-> f,
     collar_height |-> c, measured_diameter |-> m]

\* Every combination of the four distances and the measured diameter
GridHoles ==
    { HoleInput(In(l), In(r), In(b), In(f), 0, In(m)) :
        l \in 0..MaxDist, r \in 0..MaxDist, b \in 0..MaxDist, f \in 0..MaxDist,
        m \in {0, MaxDist} }

\* A hole with two, three and four distances given, and one with an override
TwoGiven == HoleInput(In(1), In(1), 0, 0, In(1), 0)

ThreeGiven == HoleInput(In(1), In(1), In(1), 0, In(1), 0)

FourGiven == HoleInput(In(1), In(1), In(1), In(1), In(1), 0)

Overridden == HoleInput(In(1), In(1), In(1), In(1), In(1), In(2))

SeqsUpTo(S, n) == UNION { [1..k -> S] : k \in 0..n }

Panel(w, l, fit, kickout, other, holes) ==
    [ width |-> w, length |-> l, fit_tolerance |-> fit, flange_length |-> In(1),
      add_kickout |-> kickout, holes |-> holes,
      color |-> IF other THEN "Other" ELSE "Not Selected",
      custom_color |-> IF other THEN "Copper" ELSE "",
      windband |-> other, spark_arrestor |-> other,
      spark_details |-> IF other THEN "mesh" ELSE "",
      additional_notes |-> IF other THEN "call first" ELSE "" ]

\* The widgets' default values: one hole, every number 0.0
DefaultForm ==
    Panel(0, 0, DefaultFitTolerance, TRUE, FALSE, << HoleInput(0, 0, 0, 0, 0, 0) >>)

\* Hole lists of the session specification: accepted and rejected ones
SessionHoleLists ==
    { << FourGiven >>, << TwoGiven >>, << FourGiven, TwoGiven >>,
      << Overridden, ThreeGiven >> }

\* Forms of the session specification
SessionForms ==
    { Panel(In(MaxDim), In(MaxDim), IF other THEN 0 ELSE DefaultFitTolerance,
            ~other, other, holes) :
        other \in BOOLEAN, holes \in SessionHoleLists }

\* The lists of holes after the first one in the resolver specification
RestLists ==
    UNION { { [i \in 1..k |-> FourGiven],
              [i \in 1..k |-> IF i = k THEN TwoGiven ELSE FourGiven] } :
            k \in {0, MaxHoles - 1} }

\* Forms of the resolver specification: the first hole ranges over the grid
ResolverForms ==
    { Panel(In(w), In(l), DefaultFitTolerance, TRUE, FALSE, << h >> \o rest) :
        w \in 0..MaxDim, l \in 0..MaxDim, h \in GridHoles, rest \in RestLists }

ProjectNames == {"", "Smith - 123 Main St"}

PhotoLists == SeqsUpTo({"field.jpg"}, MaxPhotos)

-----------------------------------------------------------------------------
(* The state machine *)

\* Initialize session state
InitialSession ==
    [ sketch_created |-> FALSE, fig2d |-> None, jpg_buffer |-> None, holes |-> << >>,
      uploaded_files_data |-> << >>, project_name |-> "", spark_details |-> "",
      spark_arrestor |-> FALSE, windband |-> FALSE,
      fit_tolerance |-> DefaultFitTolerance, additional_notes |-> "",
      color |-> "Not Selected", custom_color |-> "" ]

\* The first run of the script, before any interaction
Init ==
    /\ form = DefaultForm
    /\ project_name = ""
    /\ ss = InitialSession
    /\ run = Script("start", InitialSession, DefaultForm, "", FALSE, FALSE, FALSE, FALSE)

\* One rerun of the script from session state s
Rerun(kind, s, f, name, submit_button, send_button, creds, transport) ==
    /\ form' = f
    /\ project_name' = name
    /\ ss' = ProcessSubmission(s, f, name, submit_button)
    /\ run' = Script(kind, s, f, name, submit_button, send_button, creds, transport)

\* The user fills in the form and presses Create Sketch
CreateSketch ==
    \E f \in SessionForms :
        Rerun("submit", ss, f, project_name, TRUE, FALSE, FALSE, FALSE)

\* The user edits the project name (a widget outside the form)
EditProjectName ==
    \E name \in ProjectNames :
        /\ name # project_name
        /\ Rerun("edit", ss, form, name, FALSE, FALSE, FALSE, FALSE)

\* update_uploaded_files runs before the rerun the upload triggers
UploadPhotos ==
    \E files \in PhotoLists :
        /\ files # ss.uploaded_files_data
        /\ Rerun("upload", [ss EXCEPT !.uploaded_files_data = files], form, project_name,
                 FALSE, FALSE, FALSE, FALSE)

\* The user presses Send to Shop; creds and transport are the environment
SendToShop ==
    /\ SendEnabled(ss)
    /\ \E creds \in BOOLEAN, transport \in BOOLEAN :
           Rerun("send", ss, form, project_name, FALSE, TRUE, creds, transport)

Next == CreateSketch \/ EditProjectName \/ UploadPhotos \/ SendToShop

Spec == Init /\ [][Next]_vars

\* The resolver specification: a filled-in form, then Create Sketch
InitForm ==
    /\ form \in ResolverForms
    /\ project_name = ""
    /\ ss = InitialSession
    /\ run = Script("start", InitialSession, DefaultForm, "", FALSE, FALSE, FALSE, FALSE)

CreateSketchTyped == Rerun("submit", ss, form, project_name, TRUE, FALSE, FALSE, FALSE)

NextForm == CreateSketchTyped

SpecForm == InitForm /\ [][NextForm]_vars

\* Forms of the sketch specification: one hole without a measured diameter,
\* fit tolerances 0, 0.05 and 0.25 inch
SketchForms ==
    { Panel(In(w), In(l), fit, TRUE, FALSE, << h >>) :
        w \in 0..MaxDim, l \in 0..MaxDim,
        fit \in {0, In(1), DefaultFitTolerance},
        h \in {g \in GridHoles : g.measured_diameter = 0} }

\* The sketch specification: a filled-in form, then Create Sketch
InitSketch ==
    /\ form \in SketchForms
    /\ project_name = ""
    /\ ss = InitialSession
    /\ run = Script("start", InitialSession, DefaultForm, "", FALSE, FALSE, FALSE, FALSE)

NextSketch == CreateSketchTyped

SpecSketch == InitSketch /\ [][NextSketch]_vars

-----------------------------------------------------------------------------
(* Properties.  A submission is a run with submit_button; form holds the    *)
(* values it read, run.locals the hole loop's locals, ss the session.       *)

Given(h) == {e \in Edges : h[e] > 0}

HoleIds == 1..Len(form.holes)

SomeHoleShort == \E i \in HoleIds : Cardinality(Given(form.holes[i])) < 3

\* C1: a Create Sketch submission is rejected if and only if some hole has
\* fewer than 3 strictly positive distances; otherwise it is accepted (stored
\* and rendered), whatever the diameters are.
C1_RejectedIffShort ==
    run.submit_button =>
        /\ run.error <=> SomeHoleShort
        /\ run.rendered <=> ~SomeHoleShort
        /\ ~SomeHoleShort =>
              /\ ss.sketch_created
              /\ ss.jpg_buffer # None
              /\ Len(ss.holes) = Len(form.holes)

\* an accepted submission whose first hole has disagreeing axis diameters, a
\* negative calculated diameter and a circle that leaves the panel
C1_Witness ==
    /\ run.submit_button /\ run.rendered /\ ss.sketch_created
    /\ run.locals[1].warning
    /\ run.locals[1].diameter < 0
    /\ ss.holes[1].x > form.width

\* C2: a rejected submission renders no sketch and leaves the session state
\* as it was; a sketch is displayed only once a submission has been accepted.
C2_RejectedLeavesSession ==
    /\ [][ (run'.submit_button /\ (\E i \in 1..Len(form'.holes) :
                                      Cardinality(Given(form'.holes[i])) < 3))
              => (~run'.rendered /\ ss' = ss) ]_vars
    /\ [][ (~ss.sketch_created /\ ss'.sketch_created)
              => (run'.submit_button /\ ~run'.error) ]_vars
    /\ [](run.displayed => (ss.sketch_created /\ ss.jpg_buffer # None))
    /\ []((run.submit_button /\ run.error /\ ~ss.sketch_created) => ~run.displayed)

\* a rejected submission made after an accepted one: the earlier sketch stays
C2_Witness ==
    /\ run.submit_button /\ run.error
    /\ ss.sketch_created /\ ss.jpg_buffer # None
    /\ Len(ss.holes) # Len(form.holes)

\* C3: pressing Send to Shop with credentials set and a transport that
\* accepts the message sends the package and reports success.
C3_SendSucceeds ==
    (run.send_button /\ run.creds /\ run.transport) => run.send_result = "success"

\* C4: the recorded diameter is the measured diameter when that is positive,
\* else the calculated one; the centre does not depend on the measured diameter.
C4_FinalDiameter ==
    run.submit_button =>
        \A i \in HoleIds :
            LET h == form.holes[i]
                L == run.locals[i]
                unmeasured == HoleLoop(form.width, form.length,
                                       [h EXCEPT !.measured_diameter = 0]).hole
            IN  /\ L.hole.diameter = IF h.measured_diameter > 0
                                     THEN h.measured_diameter ELSE L.diameter
                /\ L.hole.x = unmeasured.x
                /\ L.hole.y = unmeasured.y
                /\ L.diameter = unmeasured.diameter
                /\ run.rendered => ss.holes[i] = L.hole

\* an accepted hole whose measured diameter overrides a different calculated one
C4_Witness ==
    /\ run.submit_button /\ run.rendered
    /\ form.holes[1].measured_diameter > 0
    /\ run.locals[1].diameter # form.holes[1].measured_diameter
    /\ ss.holes[1].diameter = form.holes[1].measured_diameter

\* C5: with all four distances positive the calculated diameter is the mean
\* of width - left - right and length - front - back, and the centre is
\* (left + diameter_x/2, back + diameter_y/2).
C5_FourDistances ==
    run.submit_button =>
        \A i \in HoleIds :
            LET h == form.holes[i]
                L == run.locals[i]
                dx == form.width - h.left - h.right
                dy == form.length - h.front - h.back
            IN  Given(h) = Edges =>
                    /\ L.diameter_x = dx
                    /\ L.diameter_y = dy
                    /\ 2 * L.diameter = dx + dy
                    /\ 2 * L.hole.x = 2 * h.left + dx
                    /\ 2 * L.hole.y = 2 * h.back + dy
                    /\ dx = dy => L.diameter = dx

\* four distances with disagreeing axes, and a second hole with agreeing ones
C5_Witness ==
    /\ run.submit_button /\ Len(form.holes) >= 2
    /\ Given(form.holes[1]) = Edges /\ Given(form.holes[2]) = Edges
    /\ run.locals[1].diameter_x # run.locals[1].diameter_y
    /\ run.locals[1].diameter > 0
    /\ run.locals[2].diameter_x = run.locals[2].diameter_y
    /\ run.locals[2].diameter = run.locals[2].diameter_x
    /\ run.locals[2].diameter > 0

\* C6: the mismatch warning is raised exactly when all four distances are
\* positive and the axis diameters differ by more than 0.1 inch (8/80); the
\* calculated diameter stays their mean.
C6_MismatchWarning ==
    run.submit_button =>
        \A i \in HoleIds :
            LET h == form.holes[i]
                L == run.locals[i]
                dx == form.width - h.left - h.right
                dy == form.length - h.front - h.back
            IN  /\ L.warning <=> (Given(h) = Edges /\ (dx - dy > 8 \/ dy - dx > 8))
                /\ L.warning => 2 * L.diameter = dx + dy

\* a warning on the first hole, none on a second hole whose axes differ by
\* exactly 0.1 inch
C6_Witness ==
    /\ run.submit_button /\ Len(form.holes) >= 2
    /\ run.locals[1].warning
    /\ Given(form.holes[2]) = Edges
    /\ run.locals[2].diameter_x - run.locals[2].diameter_y = 8
    /\ ~run.locals[2].warning

\* C7: with left and right positive and exactly one of front/back positive,
\* diameter = width - left - right, x = left + diameter/2, and y borrows the
\* diameter: back + diameter/2, or length - front - diameter/2.
C7_SingleYSide ==
    run.submit_button =>
        \A i \in HoleIds :
            LET h == form.holes[i]
                L == run.locals[i]
                dx == form.width - h.left - h.right
            IN  /\ Given(h) = {"left", "right", "back"} =>
                    /\ L.diameter = dx
                    /\ 2 * L.hole.x = 2 * h.left + dx
                    /\ 2 * L.hole.y = 2 * h.back + dx
                /\ Given(h) = {"left", "right", "front"} =>
                    /\ L.diameter = dx
                    /\ 2 * L.hole.x = 2 * h.left + dx
                    /\ 2 * L.hole.y = 2 * form.length - 2 * h.front - dx

\* only front on the Y axis, left and right different, on a non-square panel
C7_Witness ==
    /\ run.submit_button /\ run.rendered
    /\ Given(form.holes[1]) = {"left", "right", "front"}
    /\ form.holes[1].left # form.holes[1].right
    /\ form.width # form.length
    /\ run.locals[1].diameter > 0

\* C8 as stated: a hole with only {left, right} given (positive width,
\* left + right < width) resolves to diameter_x = width - left - right and
\* x = left + diameter_x/2, with the round trip back to left and right;
\* likewise only {front, back} against length.
C8_TwoDistancesResolve ==
    run.submit_button =>
        \A i \in HoleIds :
            LET h == form.holes[i]
                L == run.locals[i]
                dx == form.width - h.left - h.right
                dy == form.length - h.front - h.back
            IN  /\ (Given(h) = {"left", "right"} /\ form.width > 0 /\ dx > 0) =>
                    /\ L.diameter_x = dx
                    /\ 2 * L.hole.x = 2 * h.left + dx
                    /\ 2 * L.hole.x - L.diameter_x = 2 * h.left
                    /\ 2 * (form.width - L.hole.x) - L.diameter_x = 2 * h.right
                /\ (Given(h) = {"front", "back"} /\ form.length > 0 /\ dy > 0) =>
                    /\ L.diameter_y = dy
                    /\ 2 * L.hole.y = 2 * h.back + dy
                    /\ 2 * L.hole.y - L.diameter_y = 2 * h.back
                    /\ 2 * (form.length - L.hole.y) - L.diameter_y = 2 * h.front

\* C8 amended: the X (Y) round trip holds when left and right (front and
\* back) are given together with at least one distance of the other axis; a
\* hole with only one such pair is insufficient, its diameters and centre stay
\* 0 and the submission is rejected.
C8_PairWithThird ==
    run.submit_button =>
        \A i \in HoleIds :
            LET h == form.holes[i]
                L == run.locals[i]
                dx == form.width - h.left - h.right
                dy == form.length - h.front - h.back
                three == Cardinality(Given(h)) >= 3
            IN  /\ ({"left", "right"} \subseteq Given(h) /\ three
                        /\ form.width > 0 /\ dx > 0) =>
                    /\ L.diameter_x = dx
                    /\ 2 * L.hole.x = 2 * h.left + dx
                    /\ 2 * L.hole.x - L.diameter_x = 2 * h.left
                    /\ 2 * (form.width - L.hole.x) - L.diameter_x = 2 * h.right
                /\ ({"front", "back"} \subseteq Given(h) /\ three
                        /\ form.length > 0 /\ dy > 0) =>
                    /\ L.diameter_y = dy
                    /\ 2 * L.hole.y = 2 * h.back + dy
                    /\ 2 * L.hole.y - L.diameter_y = 2 * h.back
                    /\ 2 * (form.length - L.hole.y) - L.diameter_y = 2 * h.front
                /\ Given(h) \in {{"left", "right"}, {"front", "back"}} =>
                    /\ ~L.valid /\ run.error /\ ~run.rendered
                    /\ L.diameter_x = 0 /\ L.diameter_y = 0 /\ L.diameter = 0
                    /\ L.hole.x = 0 /\ L.hole.y = 0

\* left, right and back given with left # right and room for the hole; a
\* second hole with only {left, right}
C8_Witness ==
    /\ run.submit_button /\ Len(form.holes) >= 2
    /\ Given(form.holes[1]) = {"left", "right", "back"}
    /\ form.holes[1].left # form.holes[1].right
    /\ run.locals[1].diameter_x > 0
    /\ Given(form.holes[2]) = {"left", "right"}
    /\ form.holes[2].left + form.holes[2].right < form.width
    /\ run.error

\* C9: each distance is from the panel edge to the hole centre, as the
\* inputs' help text says: x = left, width - x = right, y = back,
\* length - y = front for every distance given on an accepted hole.
C9_DistancesToCentre ==
    (run.submit_button /\ run.rendered) =>
        \A i \in HoleIds :
            LET h == form.holes[i]
                c == ss.holes[i]
            IN  /\ h.left > 0 => c.x = h.left
                /\ h.right > 0 => form.width - c.x = h.right
                /\ h.back > 0 => c.y = h.back
                /\ h.front > 0 => form.length - c.y = h.front

\* C10: with front and back positive and exactly one of left/right positive,
\* diameter_x = (width - side)/2 placed against that side,
\* y = back + diameter_y/2 and the calculated diameter is
\* diameter_y = length - front - back.
C10_SingleXSide ==
    run.submit_button =>
        \A i \in HoleIds :
            LET h == form.holes[i]
                L == run.locals[i]
                dy == form.length - h.front - h.back
            IN  /\ Given(h) = {"left", "front", "back"} =>
                    /\ 2 * L.diameter_x = form.width - h.left
                    /\ 2 * L.hole.x = 2 * h.left + L.diameter_x
                    /\ L.diameter_y = dy
                    /\ 2 * L.hole.y = 2 * h.back + dy
                    /\ L.diameter = dy
                /\ Given(h) = {"right", "front", "back"} =>
                    /\ 2 * L.diameter_x = form.width - h.right
                    /\ 2 * L.hole.x = 2 * form.width - 2 * h.right - L.diameter_x
                    /\ L.diameter_y = dy
                    /\ 2 * L.hole.y = 2 * h.back + dy
                    /\ L.diameter = dy

\* only right on the X axis, with diameter_x, diameter_y and their mean all
\* different
C10_Witness ==
    /\ run.submit_button /\ run.rendered
    /\ Given(form.holes[1]) = {"right", "front", "back"}
    /\ run.locals[1].diameter_y > 0
    /\ run.locals[1].diameter_x # run.locals[1].diameter_y
    /\ run.locals[1].diameter_x > 0
    /\ ss.holes[1].diameter = run.locals[1].diameter_y

\* C11 as stated: for every accepted hole without a measured diameter, the
\* circle (x, y, final diameter) lies at exactly the given distance from every
\* edge whose distance was given, for every combination of three or four.
C11_CircleAtDistances ==
    (run.submit_button /\ run.rendered) =>
        \A i \in HoleIds :
            LET h == form.holes[i]
                c == ss.holes[i]
            IN  h.measured_diameter = 0 =>
                    /\ h.left > 0 => 2 * c.x - c.diameter = 2 * h.left
                    /\ h.right > 0 => 2 * (form.width - c.x) - c.diameter = 2 * h.right
                    /\ h.back > 0 => 2 * c.y - c.diameter = 2 * h.back
                    /\ h.front > 0 => 2 * (form.length - c.y) - c.diameter = 2 * h.front

\* C11 amended: the circle keeps every given distance when left and right
\* are given with one of front/back; with front, back and one of left/right it
\* keeps back and front, and the X distance only if (width - side)/2 equals
\* length - front - back; with four distances each gap is off by a quarter of
\* diameter_x - diameter_y, so all are kept only when the axes agree.
C11_CircleWhereAxesAgree ==
    (run.submit_button /\ run.rendered) =>
        \A i \in HoleIds :
            LET h == form.holes[i]
                c == ss.holes[i]
                dx == form.width - h.left - h.right
                dy == form.length - h.front - h.back
                gapLeft  == 2 * c.x - c.diameter
                gapRight == 2 * (form.width - c.x) - c.diameter
                gapBack  == 2 * c.y - c.diameter
                gapFront == 2 * (form.length - c.y) - c.diameter
            IN  h.measured_diameter = 0 =>
                    /\ Given(h) = {"left", "right", "back"} =>
                          gapLeft = 2 * h.left /\ gapRight = 2 * h.right /\ gapBack = 2 * h.back
                    /\ Given(h) = {"left", "right", "front"} =>
                          gapLeft = 2 * h.left /\ gapRight = 2 * h.right /\ gapFront = 2 * h.front
                    /\ Given(h) = {"left", "front", "back"} =>
                          /\ gapBack = 2 * h.back /\ gapFront = 2 * h.front
                          /\ gapLeft = 2 * h.left <=> form.width - h.left = 2 * dy
                    /\ Given(h) = {"right", "front", "back"} =>
                          /\ gapBack = 2 * h.back /\ gapFront = 2 * h.front
                          /\ gapRight = 2 * h.right <=> form.width - h.right = 2 * dy
                    /\ Given(h) = Edges =>
                          /\ 2 * (gapLeft - 2 * h.left) = dx - dy
                          /\ 2 * (gapRight - 2 * h.right) = dx - dy
                          /\ 2 * (gapBack - 2 * h.back) = dy - dx
                          /\ 2 * (gapFront - 2 * h.front) = dy - dx

\* an accepted form: left # right and front given on the first hole, four
\* distances with disagreeing axes on the second, both with positive diameter
C11_Witness ==
    /\ run.submit_button /\ run.rendered /\ Len(form.holes) >= 2
    /\ Given(form.holes[1]) = {"left", "right", "front"}
    /\ form.holes[1].measured_diameter = 0
    /\ form.holes[1].left # form.holes[1].right
    /\ ss.holes[1].diameter > 0
    /\ Given(form.holes[2]) = Edges
    /\ run.locals[2].diameter_x # run.locals[2].diameter_y
    /\ ss.holes[2].diameter > 0

\* The claim's holes: left and right given, no measured diameter, exactly
\* three distances or four with agreeing axes
PlacedHole(h) ==
    /\ h.left > 0 /\ h.right > 0 /\ h.measured_diameter = 0
    /\ \/ Cardinality(Given(h)) = 3
       \/ /\ Given(h) = Edges
          /\ form.width - h.left - h.right = form.length - h.front - h.back

====
